---- MODULE Spec2Model ----
(***************************************************************************)
(* Model of Backend/server.py: registration, login, token issuance and     *)
(* verification, and the token-scoped operations on schedules and push     *)
(* tokens.  The three SQLite tables are sets of rows; every request        *)
(* handler is one action; the last response is kept in resp.               *)
(***************************************************************************)
EXTENDS Integers, Sequences, FiniteSets, TLC

VARIABLES users, schedules, push_tokens, now, resp, inflight

vars == <<users, schedules, push_tokens, now, resp, inflight>>

stores == <<users, schedules, push_tokens>>

(***************************************************************************)
(* Configuration (server.py:19-21)                                         *)
(***************************************************************************)
SECRET_KEY == "fifa-2026-secret-key-change-in-production"

ALGORITHM == "HS256"

ACCESS_TOKEN_EXPIRE_MINUTES == 60 * 24 * 7

(***************************************************************************)
(* Bounds of the model                                                     *)
(***************************************************************************)
MaxClock == 0

MaxSchedules == 2

MaxRequests == 2

(* The clock counts minutes.  The instants the model visits are the first  *)
(* MaxClock+1 minutes, the expiry instant of a token issued at minute 0    *)
(* and the minute after it.                                                *)
Instants ==
  (0 .. MaxClock) \cup
  {ACCESS_TOKEN_EXPIRE_MINUTES, ACCESS_TOKEN_EXPIRE_MINUTES + 1}

(***************************************************************************)
(* Request inputs                                                          *)
(***************************************************************************)
None == "None"

Emails == {"alice@example.com", "bob@example.com"}

Passwords == {"pw123", "hunter2"}

FullNames == {None, "Alice"}

ScheduleInputs ==
  {[schedule_name |-> "Finals Trip", match_ids |-> <<201>>],
   [schedule_name |-> "My Plan", match_ids |-> <<101, 102, 102, 103>>],
   [schedule_name |-> "My Plan", match_ids |-> <<-7, 0, 1000>>],
   [schedule_name |-> "", match_ids |-> << >>]}

DeviceTokens == {"dev-1", "dev-2"}

(***************************************************************************)
(* Digests.  hashlib digests are modelled as collision-free tagged values. *)
(***************************************************************************)
md5 == [x \in Emails |-> <<"md5", x>>]

UserIds == {md5[e] : e \in Emails}

md5_fstring(user_id, t) == <<"md5", user_id, t>>

hash_password(password) == <<"sha256", password>>

(***************************************************************************)
(* json.dumps / json.loads on a list of integers.  The stored text is a    *)
(* sequence of characters.                                                 *)
(***************************************************************************)
Digits == <<"0", "1", "2", "3", "4", "5", "6", "7", "8", "9">>

RECURSIVE NatToStr(_)
NatToStr(n) ==
  IF n < 10 THEN <<Digits[n + 1]>>
  ELSE NatToStr(n \div 10) \o <<Digits[(n % 10) + 1]>>

IntToStr(n) == IF n < 0 THEN <<"-">> \o NatToStr(0 - n) ELSE NatToStr(n)

RECURSIVE JoinItems(_)
JoinItems(m) ==
  IF Len(m) = 0 THEN << >>
  ELSE IF Len(m) = 1 THEN IntToStr(m[1])
  ELSE IntToStr(m[1]) \o <<",", " ">> \o JoinItems(Tail(m))

json_dumps(m) == <<"[">> \o JoinItems(m) \o <<"]">>

DigitVal(c) == CHOOSE d \in 0 .. 9 : Digits[d + 1] = c

IsDigit(c) == \E d \in 1 .. 10 : Digits[d] = c

RECURSIVE ParseList(_, _, _, _, _, _)
ParseList(s, i, acc, neg, val, inNum) ==
  LET item == IF neg THEN 0 - val ELSE val
      done == IF inNum THEN Append(acc, item) ELSE acc
  IN  IF i > Len(s) THEN done
      ELSE IF s[i] = "]" THEN done
      ELSE IF s[i] = "," THEN ParseList(s, i + 1, done, FALSE, 0, FALSE)
      ELSE IF s[i] = "-" THEN ParseList(s, i + 1, acc, TRUE, val, inNum)
      ELSE IF IsDigit(s[i])
           THEN ParseList(s, i + 1, acc, neg, (val * 10) + DigitVal(s[i]), TRUE)
      ELSE ParseList(s, i + 1, acc, neg, val, inNum)

json_loads(s) == ParseList(s, 1, << >>, FALSE, 0, FALSE)

(***************************************************************************)
(* Tokens.  A token is what jwt.encode produced: the header algorithm, the *)
(* key it was signed with and the claims; wf = FALSE is a string that is   *)
(* not a JWT at all.                                                       *)
(***************************************************************************)
NoSub == <<"none", "">>

jwt_encode(payload, key, algorithm) ==
  [wf |-> TRUE, alg |-> algorithm, key |-> key,
   sub |-> payload.sub, exp |-> payload.exp]

(* create_access_token with the time-to-live left out of the expiry. *)
create_access_token_NoTtl(user_id, t) ==
  jwt_encode([sub |-> user_id, exp |-> t], SECRET_KEY, ALGORITHM)

create_access_token(user_id, t) ==
  LET expire == t + ACCESS_TOKEN_EXPIRE_MINUTES
      to_encode == [sub |-> user_id, exp |-> expire]
  IN  jwt_encode(to_encode, SECRET_KEY, ALGORITHM)

(* Tokens a client can present that the server never issued. *)
FarFuture == 3 * ACCESS_TOKEN_EXPIRE_MINUTES

GarbageToken == [wf |-> FALSE, alg |-> "", key |-> "", sub |-> NoSub, exp |-> 0]

WrongKeyToken ==
  [wf |-> TRUE, alg |-> ALGORITHM, key |-> "some-other-key",
   sub |-> md5["alice@example.com"], exp |-> FarFuture]

WrongAlgToken ==
  [wf |-> TRUE, alg |-> "HS512", key |-> SECRET_KEY,
   sub |-> md5["alice@example.com"], exp |-> FarFuture]

NoSubToken ==
  [wf |-> TRUE, alg |-> ALGORITHM, key |-> SECRET_KEY,
   sub |-> NoSub, exp |-> FarFuture]

BadTokens == {GarbageToken, WrongKeyToken, WrongAlgToken, NoSubToken}

(* jwt.decode: the set of outcomes at time t.  exc = "" is a returned      *)
(* payload.  At the expiry instant itself the outcome depends on the       *)
(* installed library version, so both are possible.                        *)
Raised(name) == [exc |-> name, sub |-> NoSub]

jwt_decode(token, key, algorithms, t) ==
  IF ~token.wf THEN {Raised("DecodeError")}
  ELSE IF token.alg \notin algorithms THEN {Raised("InvalidAlgorithmError")}
  ELSE IF token.key # key THEN {Raised("InvalidSignatureError")}
  ELSE IF token.exp < t THEN {Raised("ExpiredSignatureError")}
  ELSE IF token.exp = t
       THEN {Raised("ExpiredSignatureError"), [exc |-> "", sub |-> token.sub]}
  ELSE {[exc |-> "", sub |-> token.sub]}

(* Names the module imported as jwt (server.py:13) defines. *)
JwtModuleNames ==
  {"encode", "decode", "PyJWTError", "InvalidTokenError", "DecodeError",
   "InvalidSignatureError", "ExpiredSignatureError", "InvalidAlgorithmError",
   "InvalidKeyError", "MissingRequiredClaimError"}

HTTPException(status_code, detail) ==
  [ok |-> FALSE, user_id |-> NoSub, status |-> status_code, detail |-> detail]

(* An exception no handler catches: the framework answers 500. *)
Unhandled(name) ==
  [ok |-> FALSE, user_id |-> NoSub, status |-> 500, detail |-> name]

(* The except clauses of verify_token, tried in order for an exception     *)
(* raised in the try block.                                                *)
verify_except(exc, carried) ==
  IF exc = "ExpiredSignatureError" THEN HTTPException(401, "Token expired")
  ELSE IF "JWTError" \notin JwtModuleNames THEN Unhandled("AttributeError")
  ELSE IF exc = "HTTPException" THEN carried
  ELSE HTTPException(401, "Invalid token")

verify_outcome(d) ==
  IF d.exc # "" THEN verify_except(d.exc, HTTPException(401, "Invalid token"))
  ELSE IF d.sub = NoSub
       THEN verify_except("HTTPException", HTTPException(401, "Invalid token"))
  ELSE [ok |-> TRUE, user_id |-> d.sub, status |-> 200, detail |-> ""]

verify_token(token, t) ==
  {verify_outcome(d) : d \in jwt_decode(token, SECRET_KEY, {ALGORITHM}, t)}

(***************************************************************************)
(* Tables and responses                                                    *)
(***************************************************************************)
(* A schema without the PRIMARY KEY and UNIQUE constraints. *)
UniqueViolation_NoConstraint(table, row, cols) == FALSE

UniqueViolation(table, row, cols) ==
  \E r \in table : \E c \in cols : r[c] = row[c]

NoBody == [empty |-> TRUE]

Response(op, req, status, detail, body) ==
  [op |-> op, at |-> now, req |-> req, status |-> status, detail |-> detail,
   body |-> body]

(* Tokens are not persisted.  The tokens the server can have issued so far *)
(* are those of a registration or login of a stored user at an instant     *)
(* between that user's registration and now.                               *)
IssuedTokens ==
  UNION {{create_access_token(u.user_id, t) :
            t \in {i \in Instants : u.created_at <= i /\ i <= now}} :
         u \in users}

(* Register requests handled concurrently (the framework runs the handlers *)
(* in a thread pool): per request slot, the request, where its handler is  *)
(* and how it was answered.                                                *)
NoRequest == [pc |-> "free", req |-> NoBody, status |-> 0, body |-> NoBody]

Init ==
  /\ users = {}
  /\ schedules = {}
  /\ push_tokens = {}
  /\ now = 0
  /\ resp = [op |-> "startup", at |-> 0, req |-> NoBody, status |-> 0,
             detail |-> "", body |-> NoBody]
  /\ inflight = [i \in 1 .. MaxRequests |-> NoRequest]

Tick ==
  /\ \E t \in Instants : t > now /\ now' = t
  /\ UNCHANGED <<inflight, users, schedules, push_tokens, resp>>

(* The SELECT of register compared against the wrong column. *)
SelectUserByEmail_WrongColumn(email) == {u \in users : u.full_name = email}

(* SELECT user_id FROM users WHERE email = ? *)
SelectUserByEmail(email) == {u \in users : u.email = email}

(* POST /api/auth/register *)
Register(email, password, full_name) ==
  LET req == [email |-> email, password |-> password, full_name |-> full_name]
      user_id == md5[email]
      row == [user_id |-> user_id, email |-> email,
              password_hash |-> hash_password(password),
              full_name |-> full_name, created_at |-> now]
      access_token == create_access_token(user_id, now)
  IN  IF SelectUserByEmail(email) # {}
      THEN /\ resp' = Response("register", req, 400,
                               "Email already registered", NoBody)
           /\ UNCHANGED <<inflight, users, schedules, push_tokens, now>>
      ELSE IF UniqueViolation(users, row, {"user_id", "email"})
      THEN /\ resp' = Response("register", req, 500, "IntegrityError", NoBody)
           /\ UNCHANGED <<inflight, users, schedules, push_tokens, now>>
      ELSE /\ users' = users \cup {row}
           /\ resp' = Response("register", req, 200, "",
                               [access_token |-> access_token,
                                token_type |-> "bearer", user_id |-> user_id])
           /\ UNCHANGED <<inflight, schedules, push_tokens, now>>

(* The SELECT of login with the password condition left out. *)
SelectUserByCredentials_EmailOnly(email, password_hash) ==
  {u \in users : u.email = email}

(* SELECT user_id FROM users WHERE email = ? AND password_hash = ? *)
SelectUserByCredentials(email, password_hash) ==
  {u \in users : u.email = email /\ u.password_hash = password_hash}

(* POST /api/auth/login *)
Login(email, password) ==
  LET req == [email |-> email, password |-> password]
      password_hash == hash_password(password)
      rows == SelectUserByCredentials(email, password_hash)
  IN  IF rows = {}
      THEN /\ resp' = Response("login", req, 401,
                               "Invalid email or password", NoBody)
           /\ UNCHANGED <<inflight, users, schedules, push_tokens, now>>
      ELSE \E result \in rows :
             LET user_id == result.user_id
                 access_token == create_access_token(user_id, now)
             IN  /\ resp' = Response("login", req, 200, "",
                                     [access_token |-> access_token,
                                      token_type |-> "bearer",
                                      user_id |-> user_id])
                 /\ UNCHANGED <<inflight, users, schedules, push_tokens, now>>

(* POST /api/schedules *)
CreateSchedule(schedule_name, match_ids, token) ==
  LET req == [schedule_name |-> schedule_name, match_ids |-> match_ids,
              token |-> token]
  IN  \E v \in verify_token(token, now) :
        IF ~v.ok
        THEN /\ resp' = Response("create_schedule", req, v.status, v.detail,
                                 NoBody)
             /\ UNCHANGED <<inflight, users, schedules, push_tokens, now>>
        ELSE LET user_id == v.user_id
                 schedule_id == md5_fstring(user_id, now)
                 match_ids_json == json_dumps(match_ids)
                 row == [schedule_id |-> schedule_id, user_id |-> user_id,
                         schedule_name |-> schedule_name,
                         match_ids |-> match_ids_json,
                         created_at |-> now, updated_at |-> now]
             IN  IF UniqueViolation(schedules, row, {"schedule_id"})
                 THEN /\ resp' = Response("create_schedule", req, 500,
                                          "IntegrityError", NoBody)
                      /\ UNCHANGED <<inflight, users, schedules, push_tokens, now>>
                 ELSE /\ Cardinality(schedules) < MaxSchedules
                      /\ schedules' = schedules \cup {row}
                      /\ resp' = Response("create_schedule", req, 200, "",
                                          [schedule_id |-> schedule_id,
                                           schedule_name |-> schedule_name,
                                           match_ids |-> match_ids])
                      /\ UNCHANGED <<inflight, users, push_tokens, now>>

(* GET /api/schedules/{user_id} *)
ScheduleEntry(row) ==
  [schedule_id |-> row.schedule_id, schedule_name |-> row.schedule_name,
   match_ids |-> json_loads(row.match_ids), created_at |-> row.created_at,
   updated_at |-> row.updated_at]

(* The SELECT of the listing without its WHERE clause. *)
SelectSchedules_AllOwners(user_id) ==
  {ScheduleEntry(row) : row \in schedules}

SelectSchedules(user_id) ==
  {ScheduleEntry(row) : row \in {r \in schedules : r.user_id = user_id}}

GetUserSchedules(user_id, token) ==
  LET req == [user_id |-> user_id, token |-> token]
  IN  /\ \E v \in verify_token(token, now) :
           IF ~v.ok
           THEN resp' = Response("get_user_schedules", req, v.status, v.detail,
                                 NoBody)
           ELSE resp' = Response("get_user_schedules", req, 200, "",
                                 [user_id |-> user_id,
                                  schedules |-> SelectSchedules(user_id)])
      /\ UNCHANGED <<inflight, users, schedules, push_tokens, now>>

(* The DELETE with the owner condition left out. *)
DeletedRows_AnyOwner(schedule_id, user_id) ==
  {r \in schedules : r.schedule_id = schedule_id}

(* DELETE FROM schedules WHERE schedule_id = ? AND user_id = ? *)
DeletedRows(schedule_id, user_id) ==
  {r \in schedules : r.schedule_id = schedule_id /\ r.user_id = user_id}

(* DELETE /api/schedules/{schedule_id} *)
DeleteSchedule(schedule_id, token) ==
  LET req == [schedule_id |-> schedule_id, token |-> token]
  IN  \E v \in verify_token(token, now) :
        IF ~v.ok
        THEN /\ resp' = Response("delete_schedule", req, v.status, v.detail,
                                 NoBody)
             /\ UNCHANGED <<inflight, users, schedules, push_tokens, now>>
        ELSE LET user_id == v.user_id
                 deleted == DeletedRows(schedule_id, user_id)
                 rowcount == Cardinality(deleted)
             IN  /\ schedules' = schedules \ deleted
                 /\ IF rowcount = 0
                    THEN resp' = Response("delete_schedule", req, 404,
                                          "Schedule not found", NoBody)
                    ELSE resp' = Response("delete_schedule", req, 200, "",
                                          [message |->
                                             "Schedule deleted successfully"])
                 /\ UNCHANGED <<inflight, users, push_tokens, now>>

(* INSERT OR REPLACE replacing nothing: a plain append. *)
ReplacedRows_None(row) == {}

(* INSERT OR REPLACE: the rows that conflict with the new row on the       *)
(* primary key user_id are deleted before it is inserted.                  *)
ReplacedRows(row) == {r \in push_tokens : r.user_id = row.user_id}

(* POST /api/notifications/register *)
RegisterPushToken(device_token, token) ==
  LET req == [device_token |-> device_token, token |-> token]
  IN  \E v \in verify_token(token, now) :
        IF ~v.ok
        THEN /\ resp' = Response("register_push_token", req, v.status,
                                 v.detail, NoBody)
             /\ UNCHANGED <<inflight, users, schedules, push_tokens, now>>
        ELSE LET user_id == v.user_id
                 row == [user_id |-> user_id, device_token |-> device_token,
                         updated_at |-> now]
                 replaced == ReplacedRows(row)
             IN  /\ push_tokens' = (push_tokens \ replaced) \cup {row}
                 /\ resp' = Response("register_push_token", req, 200, "",
                                     [message |->
                                        "Push token registered successfully"])
                 /\ UNCHANGED <<inflight, users, schedules, now>>

(***************************************************************************)
(* Specifications.  Each draws the request inputs of its operations from   *)
(* the sets above; the operations a group of properties does not depend on *)
(* get one fixed input or are left out.                                    *)
(***************************************************************************)
(* Schedule ids a client asks to delete: those stored, and the id of the   *)
(* delete request just answered (a repeated delete).                       *)
ScheduleIds ==
  {r.schedule_id : r \in schedules} \cup
  (IF resp.op = "delete_schedule" THEN {resp.req.schedule_id} ELSE {})

DefaultPassword == "pw123"

(* Registration and login, all inputs. *)
AuthRegister ==
  \E e \in Emails, p \in Passwords, n \in FullNames : Register(e, p, n)

AuthLogin == \E e \in Emails, p \in Passwords : Login(e, p)

NextAuth == Tick \/ AuthRegister \/ AuthLogin

SpecAuth == Init /\ [][NextAuth]_vars

(* The four token-scoped operations under every kind of token: every      *)
(* token issued so far to one user, and the tokens the server never        *)
(* issued.                                                                 *)
GateRegister == Register("alice@example.com", DefaultPassword, None)

GateLogin == Login("alice@example.com", DefaultPassword)

GateCreateSchedule ==
  \E t \in IssuedTokens \cup BadTokens : CreateSchedule("Finals Trip", <<201>>, t)

GateGetUserSchedules ==
  \E u \in UserIds, t \in IssuedTokens \cup BadTokens : GetUserSchedules(u, t)

GateDeleteSchedule ==
  \E s \in ScheduleIds, t \in IssuedTokens \cup BadTokens : DeleteSchedule(s, t)

GateRegisterPushToken ==
  \E t \in IssuedTokens \cup BadTokens : RegisterPushToken("dev-1", t)

NextGate ==
  \/ Tick
  \/ GateRegister
  \/ GateLogin
  \/ GateCreateSchedule
  \/ GateGetUserSchedules
  \/ GateDeleteSchedule
  \/ GateRegisterPushToken

SpecGate == Init /\ [][NextGate]_vars

(* Schedules: create, list and delete, all schedule inputs, presented with *)
(* the token of a login made at the instant of the request or with a       *)
(* string that is no token.                                                *)
FreshTokens == {create_access_token(u.user_id, now) : u \in users}

SchedRegister == \E e \in Emails : Register(e, DefaultPassword, None)

SchedCreateSchedule ==
  \E i \in ScheduleInputs, t \in FreshTokens \cup {GarbageToken} :
    CreateSchedule(i.schedule_name, i.match_ids, t)

SchedGetUserSchedules ==
  \E u \in UserIds, t \in FreshTokens \cup {GarbageToken} :
    GetUserSchedules(u, t)

SchedDeleteSchedule ==
  \E s \in ScheduleIds, t \in FreshTokens \cup {GarbageToken} :
    DeleteSchedule(s, t)

NextSched ==
  \/ Tick
  \/ SchedRegister
  \/ SchedCreateSchedule
  \/ SchedGetUserSchedules
  \/ SchedDeleteSchedule

SpecSched == Init /\ [][NextSched]_vars

(* Push tokens, all device tokens. *)
PushRegister == \E e \in Emails : Register(e, DefaultPassword, None)

PushRegisterPushToken ==
  \E d \in DeviceTokens, t \in FreshTokens \cup {GarbageToken} :
    RegisterPushToken(d, t)

NextPush == Tick \/ PushRegister \/ PushRegisterPushToken

SpecPush == Init /\ [][NextPush]_vars

(* Concurrent registrations.  A handler runs its SELECT (server.py:185)   *)
(* and, when no row was found, later its INSERT and commit (193-197); the  *)
(* store serializes the statements, other requests run in between.         *)
RegisterSelect(i, email, password, full_name) ==
  LET req == [email |-> email, password |-> password, full_name |-> full_name]
  IN  /\ inflight[i].pc = "free"
      /\ IF SelectUserByEmail(email) # {}
         THEN /\ inflight' = [inflight EXCEPT ![i] =
                                [pc |-> "done", req |-> req, status |-> 400,
                                 body |-> NoBody]]
              /\ resp' = Response("register", req, 400,
                                  "Email already registered", NoBody)
         ELSE /\ inflight' = [inflight EXCEPT ![i] =
                                [pc |-> "insert", req |-> req, status |-> 0,
                                 body |-> NoBody]]
              /\ resp' = resp
      /\ UNCHANGED <<users, schedules, push_tokens, now>>

RegisterInsert(i) ==
  LET req == inflight[i].req
      user_id == md5[req.email]
      row == [user_id |-> user_id, email |-> req.email,
              password_hash |-> hash_password(req.password),
              full_name |-> req.full_name, created_at |-> now]
      access_token == create_access_token(user_id, now)
      body == [access_token |-> access_token, token_type |-> "bearer",
               user_id |-> user_id]
  IN  /\ inflight[i].pc = "insert"
      /\ IF UniqueViolation(users, row, {"user_id", "email"})
         THEN /\ inflight' = [inflight EXCEPT ![i] =
                                [pc |-> "done", req |-> req, status |-> 500,
                                 body |-> NoBody]]
              /\ resp' = Response("register", req, 500, "IntegrityError",
                                  NoBody)
              /\ UNCHANGED <<users, schedules, push_tokens, now>>
         ELSE /\ users' = users \cup {row}
              /\ inflight' = [inflight EXCEPT ![i] =
                                [pc |-> "done", req |-> req, status |-> 200,
                                 body |-> body]]
              /\ resp' = Response("register", req, 200, "", body)
              /\ UNCHANGED <<schedules, push_tokens, now>>

RaceRegisterSelect ==
  \E i \in 1 .. MaxRequests, e \in Emails, p \in Passwords, n \in FullNames :
    RegisterSelect(i, e, p, n)

RaceRegisterInsert == \E i \in 1 .. MaxRequests : RegisterInsert(i)

RaceLogin == \E e \in Emails, p \in Passwords : Login(e, p)

NextRace == Tick \/ RaceRegisterSelect \/ RaceRegisterInsert \/ RaceLogin

SpecRace == Init /\ [][NextRace]_vars

(***************************************************************************)
(* Traffic and weather providers (traffic_service.py, weather_service.py). *)
(* A call is given the outcome of the provider: whether the API key is     *)
(* set, whether the HTTP request raised, the HTTP status, whether the body *)
(* is JSON, and the decoded data.  A field of the data is present with a   *)
(* value, present with null, or missing.  resp keeps the result of the     *)
(* last call: status 200 for a returned value, 500 for a raised exception. *)
(***************************************************************************)
Present(v) == [st |-> "ok", v |-> v]

Missing == [st |-> "missing", v |-> 0]

Null == [st |-> "null", v |-> 0]

Raise(name) == [raised |-> TRUE, exc |-> name, value |-> NoBody]

Return(value) == [raised |-> FALSE, exc |-> "", value |-> value]

(* round(n / d) of Python 3: to the nearest integer, ties to even. *)
RoundHalfEven(n, d) ==
  LET q == n \div d
      r == n % d
  IN  IF 2 * r < d THEN q
      ELSE IF 2 * r > d THEN q + 1
      ELSE IF q % 2 = 0 THEN q ELSE q + 1

(* int(x) of a number given in tenths: truncation toward zero. *)
IntOfTenths(x) == IF x >= 0 THEN x \div 10 ELSE 0 - ((0 - x) \div 10)

(* requests.get, raise_for_status and response.json, in this order. *)
FetchJson(o) ==
  IF o.transport # "ok" THEN Raise("RequestException")
  ELSE IF o.http >= 400 THEN Raise("HTTPError")
  ELSE IF ~o.json THEN Raise("JSONDecodeError")
  ELSE Return(o.data)

(* _mock_traffic_data; distance_miles is in tenths of a mile. *)
mock_traffic_data(t) ==
  [distance_meters |-> 15000, distance_miles |-> 93,
   duration_seconds |-> 1200, duration_minutes |-> 20,
   duration_in_traffic_seconds |-> 1500, duration_in_traffic_minutes |-> 25,
   traffic_level |-> "moderate", traffic_delay_minutes |-> 5,
   mode |-> "driving", updated_at |-> t]

(* The element of a response whose status fields are OK. *)
TravelTimeOfElement(element, mode, t) ==
  LET duration == element.duration
      duration_in_traffic ==
        IF element.duration_in_traffic.st = "missing" THEN duration
        ELSE element.duration_in_traffic
      distance == element.distance
  IN  IF duration.st = "missing" THEN Raise("KeyError")
      ELSE IF distance.st = "missing" THEN Raise("KeyError")
      ELSE IF duration.st = "null" THEN Raise("TypeError")
      ELSE IF duration_in_traffic.st = "null" THEN Raise("TypeError")
      ELSE IF distance.st = "null" THEN Raise("TypeError")
      ELSE LET traffic_level ==
                 IF duration.v <= 0 THEN "light"
                 ELSE IF 10 * duration_in_traffic.v < 11 * duration.v
                      THEN "light"
                 ELSE IF 10 * duration_in_traffic.v < 13 * duration.v
                      THEN "moderate"
                 ELSE "heavy"
           IN  Return(
                 [distance_meters |-> distance.v,
                  distance_miles |->
                    RoundHalfEven(distance.v * 621371, 100000000),
                  duration_seconds |-> duration.v,
                  duration_minutes |-> RoundHalfEven(duration.v, 60),
                  duration_in_traffic_seconds |-> duration_in_traffic.v,
                  duration_in_traffic_minutes |->
                    RoundHalfEven(duration_in_traffic.v, 60),
                  traffic_level |-> traffic_level,
                  traffic_delay_minutes |->
                    RoundHalfEven(duration_in_traffic.v - duration.v, 60),
                  mode |-> mode, updated_at |-> t])

(* The try block of get_travel_time. *)
TravelTimeTry(o, mode, t) ==
  LET fetched == FetchJson(o)
      data == fetched.value
  IN  IF fetched.raised THEN fetched
      ELSE IF data.status = "" THEN Raise("KeyError")
      ELSE IF data.status # "OK" THEN Return(mock_traffic_data(t))
      ELSE IF data.rows = "missing" THEN Raise("KeyError")
      ELSE IF data.rows = "empty" THEN Return(mock_traffic_data(t))
      ELSE IF data.elements = "missing" THEN Raise("KeyError")
      ELSE IF data.elements = "empty" THEN Raise("IndexError")
      ELSE IF data.element.status = "" THEN Raise("KeyError")
      ELSE IF data.element.status # "OK" THEN Return(mock_traffic_data(t))
      ELSE TravelTimeOfElement(data.element, mode, t)

(* An except clause that lets the exception through. *)
ExceptException_Reraise(tried, fallback) == tried

(* except Exception: print the error and return the mock data. *)
ExceptException(tried, fallback) ==
  IF tried.raised THEN Return(fallback) ELSE tried

get_travel_time(o, mode, t) ==
  IF o.api_key = "" THEN Return(mock_traffic_data(t))
  ELSE ExceptException(TravelTimeTry(o, mode, t), mock_traffic_data(t))

(* _mock_weather_data *)
mock_weather_data(t) ==
  [temperature |-> 72, temperature_unit |-> "F",
   condition |-> Present("Partly Cloudy"),
   description |-> Present("partly cloudy"),
   precipitation_chance |-> 20, humidity |-> Present(65), wind_speed |-> 8,
   feels_like |-> 70, updated_at |-> t]

(* int(x) of a JSON value given in tenths. *)
IntOf(field) ==
  IF field.st = "missing" THEN Raise("KeyError")
  ELSE IF field.st = "null" THEN Raise("TypeError")
  ELSE Return(IntOfTenths(field.v))

(* A value read by subscript and used as it is: None stays None. *)
Subscript(field) ==
  IF field.st = "missing" THEN Raise("KeyError") ELSE Return(field)

(* The dictionary built from one weather item (the current weather, or a   *)
(* forecast entry); precipitation is the already evaluated                 *)
(* precipitation_chance.  The entries are evaluated in order.              *)
WeatherOfItem(item, precipitation, t) ==
  LET temperature ==
        IF item.main = "missing" THEN Raise("KeyError") ELSE IntOf(item.temp)
      condition ==
        IF item.weather = "missing" THEN Raise("KeyError")
        ELSE IF item.weather = "empty" THEN Raise("IndexError")
        ELSE Subscript(item.condition)
      description == Subscript(item.description)
      humidity == Subscript(item.humidity)
      wind_speed ==
        IF item.wind = "missing" THEN Raise("KeyError") ELSE IntOf(item.speed)
      feels_like == IntOf(item.feels_like)
  IN  IF temperature.raised THEN temperature
      ELSE IF condition.raised THEN condition
      ELSE IF description.raised THEN description
      ELSE IF precipitation.raised THEN precipitation
      ELSE IF humidity.raised THEN humidity
      ELSE IF wind_speed.raised THEN wind_speed
      ELSE IF feels_like.raised THEN feels_like
      ELSE Return(
             [temperature |-> temperature.value, temperature_unit |-> "F",
              condition |-> condition.value,
              description |-> description.value,
              precipitation_chance |-> precipitation.value,
              humidity |-> humidity.value, wind_speed |-> wind_speed.value,
              feels_like |-> feels_like.value, updated_at |-> t])

(* The try block of get_current_weather. *)
CurrentWeatherTry(o, t) ==
  LET fetched == FetchJson(o)
  IN  IF fetched.raised THEN fetched
      ELSE WeatherOfItem(fetched.value.item, Return(0), t)

get_current_weather(o, t) ==
  IF o.api_key = "" THEN Return(mock_weather_data(t))
  ELSE ExceptException(CurrentWeatherTry(o, t), mock_weather_data(t))

(* int(forecast.get("pop", 0) * 100); pop is given in quarters, which the   *)
(* floating-point product represents exactly.                              *)
PrecipitationChance(pop) ==
  IF pop.st = "missing" THEN Return(0)
  ELSE IF pop.st = "null" THEN Raise("TypeError")
  ELSE Return(pop.v * 25)

(* The try block of get_forecast. *)
ForecastTry(o, t) ==
  LET fetched == FetchJson(o)
      data == fetched.value
  IN  IF fetched.raised THEN fetched
      ELSE IF data.list = "missing" THEN Raise("KeyError")
      ELSE IF data.list = "empty" THEN Return(mock_weather_data(t))
      ELSE WeatherOfItem(data.item, PrecipitationChance(data.item.pop), t)

get_forecast(o, t) ==
  IF o.api_key = "" THEN Return(mock_weather_data(t))
  ELSE ExceptException(ForecastTry(o, t), mock_weather_data(t))

(* What the provider can answer.  An outcome is the configured key, how    *)
(* the HTTP exchange ended, and the decoded body.                          *)
GoodElement ==
  [status |-> "OK", duration |-> Present(1200),
   duration_in_traffic |-> Present(1500), distance |-> Present(1609)]

Elements ==
  {[status |-> st, duration |-> GoodElement.duration,
    duration_in_traffic |-> GoodElement.duration_in_traffic,
    distance |-> GoodElement.distance] : st \in {"", "ZERO_RESULTS"}}
  \cup
  {[status |-> "OK", duration |-> d, duration_in_traffic |-> dt,
    distance |-> m] :
     d \in {Missing, Null, Present(0), Present(90), Present(1200)},
     dt \in {Missing, Null, Present(1200), Present(1500), Present(1700)},
     m \in {Missing, Null, Present(1609), Present(3000)}}

TrafficData(status, rows, elements, element) ==
  [status |-> status, rows |-> rows, elements |-> elements,
   element |-> element]

TrafficBodies ==
  {TrafficData(st, "present", "present", GoodElement) :
     st \in {"", "REQUEST_DENIED"}}
  \cup {TrafficData("OK", r, "present", GoodElement) :
          r \in {"missing", "empty"}}
  \cup {TrafficData("OK", "present", e, GoodElement) :
          e \in {"missing", "empty"}}
  \cup {TrafficData("OK", "present", "present", e) : e \in Elements}

Exchange(api_key, transport, http, json, data) ==
  [api_key |-> api_key, transport |-> transport, http |-> http,
   json |-> json, data |-> data]

(* The outcomes in which no body is decoded, with a body that would have   *)
(* been a full answer, and the decoded bodies of a completed exchange.     *)
Outcomes(good, bodies) ==
  {Exchange("", "ok", 200, TRUE, good)}
  \cup {Exchange("key", tr, 200, TRUE, good) : tr \in {"timeout", "refused"}}
  \cup {Exchange("key", "ok", h, TRUE, good) : h \in {401, 500}}
  \cup {Exchange("key", "ok", 200, FALSE, good)}
  \cup {Exchange("key", "ok", 200, TRUE, d) : d \in bodies}

TrafficOutcomes ==
  Outcomes(TrafficData("OK", "present", "present", GoodElement),
           TrafficBodies)

Modes == {"driving", "walking"}

GoodItem ==
  [main |-> "present", temp |-> Present(726), humidity |-> Present(40),
   feels_like |-> Present(-55), weather |-> "present",
   condition |-> Present("Rain"), description |-> Present("light rain"),
   wind |-> "present", speed |-> Present(129), pop |-> Present(2)]

NumberFields == {"temp", "humidity", "feels_like", "speed", "pop"}

TextFields == {"condition", "description"}

MissingText == [st |-> "missing", v |-> ""]

NullText == [st |-> "null", v |-> ""]

(* The full item, and the items with one part missing, null or empty. *)
Items ==
  {GoodItem}
  \cup {[GoodItem EXCEPT ![f] = x] : f \in NumberFields, x \in {Missing, Null}}
  \cup {[GoodItem EXCEPT ![f] = x] :
          f \in TextFields, x \in {MissingText, NullText}}
  \cup {[GoodItem EXCEPT !.main = "missing"],
        [GoodItem EXCEPT !.weather = "missing"],
        [GoodItem EXCEPT !.weather = "empty"],
        [GoodItem EXCEPT !.wind = "missing"]}

WeatherData(list, item) == [list |-> list, item |-> item]

(* The body of /weather is one item; it has no pop. *)
CurrentWeatherOutcomes ==
  Outcomes(WeatherData("absent", [GoodItem EXCEPT !.pop = Missing]),
           {WeatherData("absent", i) : i \in {j \in Items : j.pop = Missing}})

ForecastOutcomes ==
  Outcomes(WeatherData("present", GoodItem),
           {WeatherData("present", i) : i \in Items}
           \cup {WeatherData(l, GoodItem) : l \in {"missing", "empty"}})

(* The result of a direct call: detail is the exception that left the      *)
(* function, "" when it returned; body is the value returned.              *)
Called(op, req, result) == Response(op, req, 0, result.exc, result.value)

GetTravelTime ==
  \E o \in TrafficOutcomes, mode \in Modes :
    /\ resp' = Called("get_travel_time", [outcome |-> o, mode |-> mode],
                      get_travel_time(o, mode, now))
    /\ UNCHANGED <<inflight, users, schedules, push_tokens, now>>

GetCurrentWeather ==
  \E o \in CurrentWeatherOutcomes :
    /\ resp' = Called("get_current_weather", [outcome |-> o],
                      get_current_weather(o, now))
    /\ UNCHANGED <<inflight, users, schedules, push_tokens, now>>

GetForecast ==
  \E o \in ForecastOutcomes :
    /\ resp' = Called("get_forecast", [outcome |-> o],
                      get_forecast(o, now))
    /\ UNCHANGED <<inflight, users, schedules, push_tokens, now>>

NextProviders == Tick \/ GetTravelTime \/ GetCurrentWeather \/ GetForecast

SpecProviders == Init /\ [][NextProviders]_vars

(***************************************************************************)
(* Properties                                                              *)
(***************************************************************************)
(* A step in which a request was answered. *)
Answered(op) == resp' # resp /\ resp'.op = op

(* C1: once an email is registered (a row with it is stored), every later  *)
(* register of that email, whatever the password and the name, is answered *)
(* 400 'Email already registered', and the row stays, unchanged, the only  *)
(* row with that email.                                                    *)
C1_DuplicateEmailRejected ==
  [][\A u \in users :
       /\ u \in users'
       /\ {v \in users' : v.email = u.email} = {u}
       /\ (Answered("register") /\ resp'.req.email = u.email)
            => /\ resp'.status = 400
               /\ resp'.detail = "Email already registered"]_vars

C1_Witness ==
  /\ resp.op = "register"
  /\ resp.status = 400
  /\ \E u \in users :
       /\ u.email = resp.req.email
       /\ u.password_hash # hash_password(resp.req.password)
       /\ u.full_name # resp.req.full_name

(* C6: a login with a registered email and a wrong password and a login    *)
(* with an unregistered email get the same answer, 401 'Invalid email or   *)
(* password' with no body; a login succeeds, with a token whose subject is *)
(* the user's id, exactly when the email is registered and the password is *)
(* the one given at registration.                                          *)
LoginFailure ==
  [status |-> 401, detail |-> "Invalid email or password", body |-> NoBody]

C6_LoginOutcome ==
  [][Answered("login") =>
       LET owners == {u \in users : u.email = resp'.req.email}
           matching == {u \in owners :
                          u.password_hash = <<"sha256", resp'.req.password>>}
       IN  IF matching = {}
           THEN [status |-> resp'.status, detail |-> resp'.detail,
                 body |-> resp'.body] = LoginFailure
           ELSE /\ resp'.status = 200
                /\ \A u \in matching :
                     /\ resp'.body.user_id = u.user_id
                     /\ resp'.body.access_token.sub = u.user_id]_vars

(* A login with a registered email and a wrong password was refused. *)
C6_Witness ==
  /\ resp.op = "login"
  /\ resp.status = 401
  /\ \E u \in users :
       /\ u.email = resp.req.email
       /\ u.password_hash # hash_password(resp.req.password)

ScopedOps ==
  {"create_schedule", "get_user_schedules", "delete_schedule",
   "register_push_token"}

(* C3: a token issued for subject S at time t carries the expiry t + 7     *)
(* days; whatever happened in between, verifying it before that expiry     *)
(* gives exactly S, and strictly after it fails with 401 'Token expired'.   *)
C3_TokenLifetime ==
  /\ (resp.op \in {"register", "login"} /\ resp.status = 200)
       => /\ resp.body.access_token.sub = resp.body.user_id
          /\ resp.body.access_token.exp = resp.at + (7 * 24 * 60)
          /\ resp.body.access_token \in IssuedTokens
  /\ \A tok \in IssuedTokens :
       /\ now < tok.exp =>
            verify_token(tok, now) =
              {[ok |-> TRUE, user_id |-> tok.sub, status |-> 200, detail |-> ""]}
       /\ now > tok.exp =>
            verify_token(tok, now) =
              {[ok |-> FALSE, user_id |-> NoSub, status |-> 401,
                detail |-> "Token expired"]}
  /\ (resp.op \in ScopedOps /\ resp.req.token \notin BadTokens)
       => /\ resp.at < resp.req.token.exp => resp.status # 401
          /\ resp.at > resp.req.token.exp
               => resp.status = 401 /\ resp.detail = "Token expired"

(* A request presented an issued token after its expiry and was refused. *)
C3_Witness ==
  /\ resp.op = "get_user_schedules"
  /\ resp.req.token \in IssuedTokens
  /\ resp.at > resp.req.token.exp
  /\ resp.status = 401
  /\ resp.detail = "Token expired"

(* C4: a request whose token is not well-formed, is signed with another    *)
(* key, uses an unsupported algorithm or has no subject is answered 401    *)
(* 'Invalid token' and nothing else.                                       *)
C4_InvalidTokenRejected ==
  (resp.op \in ScopedOps /\ resp.req.token \in BadTokens)
    => resp.status = 401 /\ resp.detail = "Invalid token"

(* C5: a token-scoped request whose token fails verification - expired,    *)
(* malformed or badly signed - ends with an authorization error and leaves *)
(* the users, schedules and push_tokens stores as they were.               *)
C5_FailedVerificationNoEffect ==
  [][\A op \in ScopedOps :
       (/\ Answered(op)
        /\ \/ resp'.req.token \in BadTokens
           \/ resp'.req.token.exp < resp'.at)
         => /\ resp'.status = 401
            /\ stores' = stores]_vars

(* C2: a delete presented with a valid token whose subject is not the      *)
(* owner of the schedule is answered 404 and the schedule stays stored and *)
(* listed for its owner; a stored schedule goes away or changes only in a  *)
(* successful delete of its id made with a token of its owner.             *)
C2_OnlyOwnerDeletes ==
  [][/\ \A s \in schedules :
          s \notin schedules'
            => /\ Answered("delete_schedule")
               /\ resp'.status = 200
               /\ resp'.req.schedule_id = s.schedule_id
               /\ resp'.req.token.sub = s.user_id
     /\ (Answered("delete_schedule") /\ resp'.req.token \in FreshTokens)
          => \A s \in schedules :
               (/\ s.schedule_id = resp'.req.schedule_id
                /\ s.user_id # resp'.req.token.sub)
                 => /\ resp'.status = 404
                    /\ resp'.detail = "Schedule not found"
                    /\ s \in schedules'
                    /\ ScheduleEntry(s) \in SelectSchedules(s.user_id)']_vars

(* Another identity's valid token was refused the delete of a stored       *)
(* schedule.                                                               *)
C2_Witness ==
  /\ resp.op = "delete_schedule"
  /\ resp.status = 404
  /\ resp.req.token \in FreshTokens
  /\ \E s \in schedules :
       /\ s.schedule_id = resp.req.schedule_id
       /\ s.user_id # resp.req.token.sub
       /\ ScheduleEntry(s) \in SelectSchedules(s.user_id)

(* C7: every create made with a valid token returns the given match ids    *)
(* unmodified, and the owner's list then has an entry with the returned    *)
(* id, the same match ids (length, order, duplicates) and the given name.  *)
C7_CreateListRoundTrip ==
  [][(Answered("create_schedule") /\ resp'.req.token \in FreshTokens)
       => /\ resp'.status = 200
          /\ resp'.body.match_ids = resp'.req.match_ids
          /\ \E u \in UserIds :
               /\ u = resp'.req.token.sub
               /\ \E e \in SelectSchedules(u)' :
                    /\ e.schedule_id = resp'.body.schedule_id
                    /\ e.match_ids = resp'.req.match_ids
                    /\ e.schedule_name = resp'.req.schedule_name]_vars

(* C9: a create with a valid token makes the schedule appear in the        *)
(* owner's list; a delete of a stored id with its owner's valid token      *)
(* succeeds, removes that schedule and no other, and the owner's list no   *)
(* longer has it; the same delete made again is answered 404.              *)
C9_CreateThenDelete ==
  [][/\ (Answered("create_schedule") /\ resp'.req.token \in FreshTokens)
          => /\ resp'.status = 200
             /\ \E u \in UserIds :
                  /\ u = resp'.req.token.sub
                  /\ \E e \in SelectSchedules(u)' :
                       e.schedule_id = resp'.body.schedule_id
     /\ (Answered("delete_schedule") /\ resp'.req.token \in FreshTokens)
          => \A s \in schedules :
               (/\ s.schedule_id = resp'.req.schedule_id
                /\ s.user_id = resp'.req.token.sub)
                 => /\ resp'.status = 200
                    /\ schedules' = schedules \ {s}
                    /\ \A e \in SelectSchedules(s.user_id)' :
                         e.schedule_id # s.schedule_id
     /\ (/\ Answered("delete_schedule")
         /\ resp.op = "delete_schedule"
         /\ resp.status = 200
         /\ resp'.req = resp.req
         /\ resp'.req.token \in FreshTokens)
          => resp'.status = 404 /\ schedules' = schedules]_vars

(* C10: every create made with a valid token generates an id no stored     *)
(* schedule has, succeeds and adds exactly one row.                        *)
C10_FreshScheduleId ==
  [][(Answered("create_schedule") /\ resp'.req.token \in FreshTokens)
       => /\ resp'.status = 200
          /\ \A r \in schedules : r.schedule_id # resp'.body.schedule_id
          /\ schedules \subseteq schedules'
          /\ Cardinality(schedules') = Cardinality(schedules) + 1]_vars

(* C8: the push_tokens store never holds two rows of one owner; a           *)
(* successful registration leaves its owner's row holding the device token  *)
(* just registered and every other owner's row as it was, and no other      *)
(* step changes the store - so each owner's row holds the device token of   *)
(* that owner's most recent registration.                                   *)
C8_PushTokenUpsert ==
  [][/\ \A u \in UserIds :
          Cardinality({r \in push_tokens' : r.user_id = u}) <= 1
     /\ IF Answered("register_push_token") /\ resp'.status = 200
        THEN /\ \E r \in push_tokens' :
                  /\ r.user_id = resp'.req.token.sub
                  /\ r.device_token = resp'.req.device_token
             /\ \A r \in push_tokens \cup push_tokens' :
                  r.user_id # resp'.req.token.sub
                    => r \in push_tokens /\ r \in push_tokens'
        ELSE push_tokens' = push_tokens]_vars

(* An owner registered a device token while another owner's row was        *)
(* stored; the owner has one row, holding the token just registered, and   *)
(* the other owner's row is there.                                         *)
C8_Witness ==
  /\ resp.op = "register_push_token"
  /\ resp.status = 200
  /\ \E r \in push_tokens :
       /\ r.user_id = resp.req.token.sub
       /\ r.device_token = resp.req.device_token
       /\ \E o \in push_tokens :
            o.user_id # r.user_id /\ o.device_token # r.device_token

(* C11: in every reachable state, also when register requests of one email *)
(* interleave between their SELECT and their INSERT, no two user rows      *)
(* share an email or a user_id; at most one register request of an email   *)
(* is answered with a token; a stored row, and so its user_id, is never    *)
(* changed or removed by a later operation.                                *)
C11_EmailUniqueUnderRace ==
  [][/\ \A u, v \in users' :
          (u.email = v.email \/ u.user_id = v.user_id) => u = v
     /\ \A i, j \in 1 .. MaxRequests :
          (/\ inflight'[i].status = 200
           /\ inflight'[j].status = 200
           /\ inflight'[i].req.email = inflight'[j].req.email)
            => i = j
     /\ \A u \in users : u \in users']_vars

(* Two requests for one email, with different passwords, both passed the   *)
(* SELECT; one was answered with a token and the other was not.            *)
C11_Witness ==
  \E i, j \in 1 .. MaxRequests :
    /\ inflight[i].status = 200
    /\ inflight[j].status = 500
    /\ inflight[i].req.email = inflight[j].req.email
    /\ inflight[i].req.password # inflight[j].req.password
    /\ Cardinality({u \in users : u.email = inflight[i].req.email}) = 1

(* C13: a listing addressed to owner A and presented with any valid,       *)
(* unexpired token - of A or of anyone else - succeeds and returns exactly *)
(* the schedules stored with owner A.                                      *)
C13_ListingByPathOwner ==
  [][(Answered("get_user_schedules") /\ resp'.req.token \in FreshTokens)
       => /\ resp'.status = 200
          /\ resp'.body.user_id = resp'.req.user_id
          /\ \A r \in schedules :
               r.user_id = resp'.req.user_id
                 <=> \E e \in resp'.body.schedules :
                       e.schedule_id = r.schedule_id
          /\ \A e \in resp'.body.schedules :
               \E r \in schedules :
                 /\ r.user_id = resp'.req.user_id
                 /\ r.schedule_id = e.schedule_id
                 /\ r.schedule_name = e.schedule_name
                 /\ r.match_ids = json_dumps(e.match_ids)
                 /\ r.created_at = e.created_at
                 /\ r.updated_at = e.updated_at]_vars

(* A token of one identity listed the stored schedules of another, while   *)
(* its own subject had a schedule stored too.                              *)
C13_Witness ==
  /\ resp.op = "get_user_schedules"
  /\ resp.status = 200
  /\ resp.req.token.sub # resp.req.user_id
  /\ resp.body.schedules # {}
  /\ \E r \in schedules : r.user_id = resp.req.token.sub

ProviderOps == {"get_travel_time", "get_current_weather", "get_forecast"}

Fallback(op, t) ==
  IF op = "get_travel_time" THEN mock_traffic_data(t)
  ELSE mock_weather_data(t)

(* No body was obtained: no key, the request raised, an error status, or   *)
(* a body that is not JSON.                                                *)
ExchangeFailed(o) ==
  o.api_key = "" \/ o.transport # "ok" \/ o.http >= 400 \/ ~o.json

(* A weather item the functions cannot use: a part read without a default  *)
(* is missing or empty, or a converted number is null.                     *)
ItemUnusable(item) ==
  \/ item.main # "present" \/ item.weather # "present"
  \/ item.wind # "present"
  \/ item.temp.st # "ok" \/ item.feels_like.st # "ok"
  \/ item.speed.st # "ok"
  \/ item.humidity.st = "missing" \/ item.condition.st = "missing"
  \/ item.description.st = "missing"

(* The provider outcomes that are failures, per function. *)
ProviderFailure(op, o) ==
  \/ ExchangeFailed(o)
  \/ /\ op = "get_travel_time"
     /\ \/ o.data.status # "OK" \/ o.data.rows # "present"
        \/ o.data.elements # "present" \/ o.data.element.status # "OK"
        \/ o.data.element.duration.st # "ok"
        \/ o.data.element.distance.st # "ok"
        \/ o.data.element.duration_in_traffic.st = "null"
  \/ op = "get_current_weather" /\ ItemUnusable(o.data.item)
  \/ /\ op = "get_forecast"
     /\ \/ o.data.list # "present" \/ ItemUnusable(o.data.item)
        \/ o.data.item.pop.st = "null"

(* A response that has, with a value, every field the function looks at. *)
FullySuccessful(op, o) ==
  /\ ~ProviderFailure(op, o)
  /\ op = "get_travel_time" =>
       o.data.element.duration_in_traffic.st = "ok"
  /\ op # "get_travel_time" =>
       /\ o.data.item.humidity.st = "ok"
       /\ o.data.item.condition.st = "ok"
       /\ o.data.item.description.st = "ok"
  /\ op = "get_forecast" => o.data.item.pop.st = "ok"

====
